---- MODULE Spec2Model ----
(***************************************************************************)
(* Model of the annotation pipeline of ideogram: processAnnotData,         *)
(* fetchAnnots and fillAnnots (src/unnamed/part_000).                      *)
(*                                                                         *)
(* JavaScript values are tagged records; a JavaScript number is kept as a  *)
(* fixed-point numerator over PxDen, so that fractional pixel offsets and  *)
(* Math.round are computed, not assumed.  A JavaScript object with dynamic *)
(* keys is a function from key names to values.                            *)
(***************************************************************************)
EXTENDS Integers, Sequences, FiniteSets, TLC

VARIABLES
  chromosomesArray,      \* ideo.chromosomesArray: the diagram's chromosomes, in order
  chromosomes,           \* ideo.chromosomes[ideo.config.taxid]: name -> chromosome model
  config,                \* ideo.config
  onLoadAnnotsCallback,  \* whether ideo.onLoadAnnotsCallback is registered
  rawAnnots,             \* ideo.rawAnnots
  annots,                \* the list returned by processAnnotData
  filledAnnots,          \* the list returned by fillAnnots(annots)
  refilledAnnots,        \* the list returned by fillAnnots(filledAnnots)
  console,               \* the console.warn messages, in order
  alerts,                \* the alert messages, in order
  pending,               \* requests issued by d3.json / d3.text and not yet settled
  events,                \* what the fetch continuations did, in order
  issued,                \* every call of fetchAnnots so far, in order
  phase                  \* position of the caller in the pipeline

vars == <<chromosomesArray, chromosomes, config, onLoadAnnotsCallback, rawAnnots,
          annots, filledAnnots, refilledAnnots, console, alerts, pending, events,
          issued, phase>>

----------------------------------------------------------------------------
(* Bounds of the model *)

MaxChrs == 2       \* chromosomes in the diagram
MaxGroups == 2     \* chromosome groups in a raw payload
MaxRows == 2       \* tuples in a raw payload
MaxBp == 2         \* largest base-pair start
PxDen == 4         \* numbers are numerators over PxDen (quarter units)
MaxFrag == 3       \* entries in a fragment handed to fillAnnots
MaxFetches == 2    \* calls of fetchAnnots

----------------------------------------------------------------------------
(* JavaScript values *)

Undefined == [t |-> "undef", n |-> 0, s |-> ""]
NaN == [t |-> "nan", n |-> 0, s |-> ""]
Str(x) == [t |-> "str", n |-> 0, s |-> x]
\* the number q / PxDen
Frac(q) == [t |-> "num", n |-> q, s |-> ""]
\* the integer k
Num(k) == Frac(k * PxDen)

IsInteger(v) == v.t = "num" /\ v.n % PxDen = 0

\* seq[idx] with JavaScript's 0-based index; undefined outside the array
At(seq, idx) == IF idx + 1 \in DOMAIN seq THEN seq[idx + 1] ELSE Undefined

\* obj[k] = v
Put(obj, k, v) == [x \in (DOMAIN obj) \cup {k} |-> IF x = k THEN v ELSE obj[x]]

\* obj.k; undefined when the object has no such property
Get(obj, k) == IF k \in DOMAIN obj THEN obj[k] ELSE Undefined

EmptyObject == [x \in {} |-> Undefined]

\* a + b on numbers and undefined (the start and length slots hold nothing else)
JsAdd(a, b) ==
  IF a.t = "num" /\ b.t = "num" THEN Frac(a.n + b.n) ELSE NaN

\* Math.floor in the place of Math.round
FlooredMidpoint(a, b) ==
  IF a.t = "num" /\ b.t = "num"
  THEN Num((a.n + b.n) \div (2 * PxDen))
  ELSE NaN

\* px = Math.round((startPx + stopPx) / 2): the nearest integer, a half rounding up
RoundedMidpoint(a, b) ==
  IF a.t = "num" /\ b.t = "num"
  THEN Num((a.n + b.n + PxDen) \div (2 * PxDen))
  ELSE NaN

----------------------------------------------------------------------------
(* processAnnotData *)

\* ideo.convertBpToPx(chrModel, bp): linear in bp, chrModel.pxPerBp / PxDen pixels
\* per base pair
convertBpToPx(chrModel, bp) ==
  IF bp.t = "num" THEN Frac((bp.n * chrModel.pxPerBp) \div PxDen) ELSE NaN

\* for (k = 0; k < keys.length; k++) annot[keys[k]] = ra[k]
RECURSIVE ZipKeys(_, _, _, _)
ZipKeys(keys, ra, k, annot) ==
  IF k >= Len(keys) THEN annot
  ELSE ZipKeys(keys, ra, k + 1, Put(annot, At(keys, k), At(ra, k)))

\* ideo.config.annotationTracks[trackIndex]: undefined unless trackIndex is an
\* index of the array
TrackAt(tracks, trackIndex) ==
  IF IsInteger(trackIndex) /\ (trackIndex.n \div PxDen) + 1 \in DOMAIN tracks
  THEN [found |-> TRUE, track |-> tracks[(trackIndex.n \div PxDen) + 1]]
  ELSE [found |-> FALSE, track |-> [color |-> "", shape |-> ""]]

\* annot.stop = annot.start + annot.length
StopOf(annot) == JsAdd(Get(annot, "start"), Get(annot, "length"))

\* the explicit field is ignored
NoOverride(annot, key, value) == value

\* the explicit field wins: if ('color' in annot) color = annot.color
OverrideBy(annot, key, value) == IF key \in DOMAIN annot THEN annot[key] ELSE value

\* annot.chrIndex = i
ChrIndexOf(i) == Num(i)

\* The body of the loop over the tuples of one group, for the tuple ra of group i.
\* shape is the function-level variable, which keeps its value between tuples.
\* threw: annotTrack is undefined and annotTrack.color raises a TypeError.
AnnotOf(cfg, keys, chr, chrModel, i, ra, shape) ==
  LET zipped == ZipKeys(keys, ra, 0, EmptyObject)
      a1 == Put(zipped, "stop", StopOf(zipped))
      startPx == convertBpToPx(chrModel, Get(a1, "start"))
      stopPx == convertBpToPx(chrModel, Get(a1, "stop"))
      px == RoundedMidpoint(startPx, stopPx)
      hasTracks == cfg.annotationTracks.defined
      a2 == Put(a1, "trackIndex", IF hasTracks THEN At(ra, 3) ELSE Num(0))
      look == TrackAt(cfg.annotationTracks.list, a2["trackIndex"])
      color1 == IF hasTracks THEN Str(look.track.color) ELSE Str(cfg.annotationsColor)
      shape1 == IF hasTracks THEN Str(look.track.shape) ELSE shape
      color2 == OverrideBy(a2, "color", color1)
      shape2 == OverrideBy(a2, "shape", shape1)
      a3 == Put(a2, "chr", Str(chr))
      a4 == Put(a3, "chrIndex", ChrIndexOf(i))
      a5 == Put(a4, "px", px)
      a6 == Put(a5, "startPx", startPx)
      a7 == Put(a6, "stopPx", stopPx)
      a8 == Put(a7, "color", color2)
      a9 == Put(a8, "shape", shape2)
  IN IF hasTracks /\ ~look.found
     THEN [threw |-> TRUE, annot |-> a2, shape |-> shape]
     ELSE [threw |-> FALSE, annot |-> a9, shape |-> shape2]

\* for (j = 0; j < annotsByChr.annots.length; j++) { ... annots[m].annots.push(annot) }
RECURSIVE RowLoop(_, _, _, _, _, _, _)
RowLoop(cfg, keys, chr, chrModel, i, rows, st) ==
  IF rows = << >> \/ st.threw THEN st
  ELSE LET r == AnnotOf(cfg, keys, chr, chrModel, i, Head(rows), st.shape)
       IN RowLoop(cfg, keys, chr, chrModel, i, Tail(rows),
                  IF r.threw
                  THEN [st EXCEPT !.threw = TRUE]
                  ELSE [st EXCEPT !.out = Append(@, r.annot), !.shape = r.shape])

\* the group is pushed before its chromosome is looked up
SkipGroupAfterPush(st, group) ==
  [st EXCEPT !.annots = Append(@, [chr |-> group.chr, annots |-> << >>]),
             !.warnings =
     Append(@, [kind |-> "warn", chr |-> group.chr, count |-> Len(group.annots)])]

\* what the loop does with a group whose chr is not in the chromosome table:
\* console.warn, then continue
SkipGroup(st, group) ==
  [st EXCEPT !.warnings =
     Append(@, [kind |-> "warn", chr |-> group.chr, count |-> Len(group.annots)])]

\* for (i = 0; i < rawAnnots.length; i++) { ... }
\* st: annots (the output so far, m + 1 entries), warnings, shape, threw
RECURSIVE GroupLoop(_, _, _, _, _, _)
GroupLoop(cfg, table, keys, groups, i, st) ==
  IF i >= Len(groups) \/ st.threw THEN st
  ELSE LET group == groups[i + 1]
           chr == group.chr
       IN IF chr \notin DOMAIN table
          THEN GroupLoop(cfg, table, keys, groups, i + 1, SkipGroup(st, group))
          ELSE LET rows == RowLoop(cfg, keys, chr, table[chr], i, group.annots,
                                   [threw |-> FALSE, out |-> << >>, shape |-> st.shape])
               IN GroupLoop(cfg, table, keys, groups, i + 1,
                            [st EXCEPT
                               !.annots = Append(@, [chr |-> chr, annots |-> rows.out]),
                               !.shape = rows.shape,
                               !.threw = rows.threw])

\* processAnnotData(rawAnnots): threw, or the returned list in annots; warnings are
\* the console.warn calls made on the way
processAnnotData(cfg, table, raw) ==
  GroupLoop(cfg, table, raw.keys, raw.annots, 0,
            [threw |-> FALSE, annots |-> << >>, warnings |-> << >>, shape |-> Undefined])

----------------------------------------------------------------------------
(* fillAnnots *)

\* chrs.indexOf(chr): the first 0-based position of chr, or -1
RECURSIVE IndexFrom(_, _, _)
IndexFrom(chrs, chr, i) ==
  IF i >= Len(chrs) THEN -1
  ELSE IF chrs[i + 1] = chr THEN i ELSE IndexFrom(chrs, chr, i + 1)

IndexOf(chrs, chr) == IndexFrom(chrs, chr, 0)

\* the first loop: chrs.push(chr)
ChrNames(chrArray) == [i \in DOMAIN chrArray |-> chrArray[i].name]

\* unshift in the place of push: the placeholders end up in reverse order
PlaceholdersUnshifted(chrArray) ==
  [i \in DOMAIN chrArray |->
     [chr |-> chrArray[Len(chrArray) + 1 - i].name, annots |-> << >>]]

\* the first loop: filledAnnots.push({chr: chr, annots: []})
Placeholders(chrArray) ==
  [i \in DOMAIN chrArray |-> [chr |-> chrArray[i].name, annots |-> << >>]]

\* an entry of an unknown chromosome is appended instead of dropped
PlaceOrAppendAnnot(chrs, filled, annot) ==
  LET chrIndex == IndexOf(chrs, annot.chr)
  IN IF chrIndex # -1 THEN [filled EXCEPT ![chrIndex + 1] = annot]
     ELSE Append(filled, annot)

\* the body of the second loop: filledAnnots[chrIndex] = annot, if chrIndex !== -1
PlaceAnnot(chrs, filled, annot) ==
  LET chrIndex == IndexOf(chrs, annot.chr)
  IN IF chrIndex # -1 THEN [filled EXCEPT ![chrIndex + 1] = annot] ELSE filled

\* for (i = 0; i < annots.length; i++) { ... }
RECURSIVE PlaceLoop(_, _, _, _)
PlaceLoop(chrs, list, i, filled) ==
  IF i >= Len(list) THEN filled
  ELSE PlaceLoop(chrs, list, i + 1, PlaceAnnot(chrs, filled, list[i + 1]))

fillAnnots(chrArray, list) ==
  PlaceLoop(ChrNames(chrArray), list, 0, Placeholders(chrArray))

----------------------------------------------------------------------------
(* Inputs *)

\* sequences over S of length lo..hi
SeqsOf(S, lo, hi) == UNION {[1..n -> S] : n \in lo..hi}

NamePool == {"1", "2", "X"}

\* the diagram's chromosomes: distinct names, in any order
CanonicalOrders ==
  {[i \in DOMAIN q |-> [name |-> q[i]]] :
     q \in {q \in SeqsOf(NamePool, 1, MaxChrs) :
              \A i, j \in DOMAIN q : i # j => q[i] # q[j]}}

\* the chromosome table holds a model for each chromosome of the diagram
TableOf(chrArray, pxPerBp) ==
  [c \in {chrArray[i].name : i \in DOMAIN chrArray} |-> [pxPerBp |-> pxPerBp]]

DefaultColor == "#F00"

NoTracks == [defined |-> FALSE, list |-> << >>]
TwoTracks ==
  [defined |-> TRUE,
   list |-> <<[color |-> "#00F", shape |-> "triangle"],
              [color |-> "#0FF", shape |-> "circle"]>>]

ConfigOf(tracks, heatmaps, path) ==
  [annotationsColor |-> DefaultColor, annotationTracks |-> tracks, heatmaps |-> heatmaps,
   annotationsPath |-> path]

KeyLists ==
  {<<"name", "start", "length">>,
   <<"name", "start", "length", "color">>,
   <<"name", "start", "length", "trackIndex">>,
   <<"name", "start", "length", "trackIndex", "color">>,
   <<"name", "start", "length", "trackIndex", "color", "shape">>}

\* the values a slot of a raw tuple may hold, by the key of the slot
SlotPool(key, starts, lengths) ==
  CASE key = "name" -> {Str("BRCA1")}
    [] key = "start" -> {Num(b) : b \in starts}
    [] key = "length" -> {Num(b) : b \in lengths}
    [] key = "trackIndex" -> {Num(0), Num(1), Num(2)}
    [] key = "color" -> {Str("#0F0")}
    [] key = "shape" -> {Str("square")}

\* a tuple holds a value per key; with three keys it may carry the track index in
\* slot 3.  Shorter tuples are malformed payloads.
SlotKeys(keys) == IF Len(keys) = 3 THEN Append(keys, "trackIndex") ELSE keys

\* the tuples of length n over the first n slots
RECURSIVE TuplesOfLen(_, _, _, _)
TuplesOfLen(sk, n, starts, lengths) ==
  IF n = 0 THEN {<< >>}
  ELSE {Append(t, v) : t \in TuplesOfLen(sk, n - 1, starts, lengths),
                       v \in SlotPool(sk[n], starts, lengths)}

TuplesOf(keys, starts, lengths) ==
  UNION {TuplesOfLen(SlotKeys(keys), n, starts, lengths) : n \in 0..Len(SlotKeys(keys))}

\* up to n groups of distinct chromosomes among names, holding up to rows tuples
RECURSIVE GroupsFrom(_, _, _, _)
GroupsFrom(tuples, names, n, rows) ==
  {<< >>} \cup
  (IF n = 0 THEN {}
   ELSE UNION {{<<[chr |-> c, annots |-> a]>> \o rest :
                  rest \in GroupsFrom(tuples, names \ {c}, n - 1, rows - Len(a))} :
                 c \in names, a \in SeqsOf(tuples, 0, rows)})

GroupsOf(tuples) == GroupsFrom(tuples, NamePool, MaxGroups, MaxRows)

BaseKeys == <<"name", "start", "length">>

\* two well-formed tuples, told apart by every field
StructureTuples ==
  {<<Str("BRCA1"), Num(1), Num(1), Num(1)>>, <<Str("TP53"), Num(2), Num(0), Num(0)>>}

\* payloads of any shape: groups in any order, chromosomes the diagram lacks
StructureInputs ==
  {[chrArray |-> c, pxPerBp |-> PxDen, tracks |-> tr,
    raw |-> [keys |-> BaseKeys, annots |-> g]] :
     c \in CanonicalOrders, tr \in {NoTracks, TwoTracks}, g \in GroupsOf(StructureTuples)}

\* one group, on a chromosome of the diagram or not; every key list, and tuples of
\* every length
TupleInputs ==
  {[chrArray |-> <<[name |-> "1"]>>, pxPerBp |-> PxDen, tracks |-> tr, raw |-> r] :
     tr \in {NoTracks, TwoTracks},
     r \in UNION {{[keys |-> k, annots |-> <<[chr |-> c, annots |-> rows]>>] :
                     c \in {"1", "X"},
                     rows \in SeqsOf(TuplesOf(k, {1}, {1}), 1, MaxRows)} : k \in KeyLists}}

\* one well-formed tuple on a known chromosome, over every start, length and scale
GeometryInputs ==
  {[chrArray |-> <<[name |-> "1"]>>, pxPerBp |-> s, tracks |-> NoTracks,
    raw |-> [keys |-> BaseKeys,
             annots |-> <<[chr |-> "1",
                           annots |-> <<(<<Str("BRCA1"), Num(b), Num(l)>>)>>]>>]] :
     s \in 1..(2 * PxDen), b \in 0..MaxBp, l \in 0..MaxBp}

PipelineInputs == StructureInputs \cup TupleInputs \cup GeometryInputs

----------------------------------------------------------------------------
(* The pipeline: a loaded raw set is normalized, then reconciled *)

NoList == << >>

Init ==
  \E in \in PipelineInputs :
    /\ chromosomesArray = in.chrArray
    /\ chromosomes = TableOf(in.chrArray, in.pxPerBp)
    /\ config = ConfigOf(in.tracks, FALSE, << >>)
    /\ onLoadAnnotsCallback = FALSE
    /\ rawAnnots = in.raw
    /\ annots = NoList
    /\ filledAnnots = NoList
    /\ refilledAnnots = NoList
    /\ console = << >>
    /\ alerts = << >>
    /\ pending = {}
    /\ events = << >>
    /\ issued = << >>
    /\ phase = "loaded"

\* ideo.annots = ideo.processAnnotData(ideo.rawAnnots)
ProcessAnnotData ==
  /\ phase = "loaded"
  /\ LET r == processAnnotData(config, chromosomes, rawAnnots)
     IN /\ console' = console \o r.warnings
        /\ annots' = IF r.threw THEN annots ELSE r.annots
        /\ phase' = IF r.threw THEN "threw" ELSE "processed"
  /\ UNCHANGED <<chromosomesArray, chromosomes, config, onLoadAnnotsCallback,
                 rawAnnots, filledAnnots, refilledAnnots, alerts, pending, events, issued>>

\* ideo.fillAnnots(annots)
FillAnnots ==
  /\ phase = "processed"
  /\ filledAnnots' = fillAnnots(chromosomesArray, annots)
  /\ phase' = "filled"
  /\ UNCHANGED <<chromosomesArray, chromosomes, config, onLoadAnnotsCallback,
                 rawAnnots, annots, refilledAnnots, console, alerts, pending, events, issued>>

Next == ProcessAnnotData \/ FillAnnots

Spec == Init /\ [][Next]_vars

----------------------------------------------------------------------------
(* Properties of processAnnotData *)

Normalized == phase \in {"processed", "filled"}

IsKnownGroup(g) == g.chr \in DOMAIN chromosomes
IsUnknownGroup(g) == g.chr \notin DOMAIN chromosomes

\* the raw groups whose chromosome the diagram has, and the others, in raw order
KnownGroups == SelectSeq(rawAnnots.annots, IsKnownGroup)
UnknownGroups == SelectSeq(rawAnnots.annots, IsUnknownGroup)

\* the track lookup of the tuple fails: no value in slot 3, or no such track
BadTrack(ra) ==
  config.annotationTracks.defined /\ ~TrackAt(config.annotationTracks.list, At(ra, 3)).found

\* the fields processAnnotData assigns after the zip of keys and tuple
AssignedFields ==
  {"stop", "trackIndex", "chr", "chrIndex", "px", "startPx", "stopPx", "color", "shape"}

\* (i, j): the j-th annotation of output group i
Emitted == UNION {{<<i, j>> : j \in DOMAIN annots[i].annots} : i \in DOMAIN annots}

\* C3: a raw group whose chr is not in the chromosome table yields one warning, no
\* output group and no exception, and the other groups are still processed: the
\* output holds one group per raw group with a known chr, in raw order, each with
\* one annotation per tuple, in row order; the warnings are one per unknown group.
\* An exception, if any, comes from a tuple of a known group.
C3_UnknownChrIsolated ==
  /\ Normalized =>
       /\ Len(annots) = Len(KnownGroups)
       /\ \A i \in DOMAIN annots :
            /\ annots[i].chr = KnownGroups[i].chr
            /\ Len(annots[i].annots) = Len(KnownGroups[i].annots)
            /\ \A j \in DOMAIN annots[i].annots :
                 /\ annots[i].annots[j]["chr"] = Str(annots[i].chr)
                 /\ \A k \in DOMAIN rawAnnots.keys :
                      rawAnnots.keys[k] \notin AssignedFields =>
                        annots[i].annots[j][rawAnnots.keys[k]] =
                          At(KnownGroups[i].annots[j], k - 1)
       /\ console = [u \in DOMAIN UnknownGroups |->
                       [kind |-> "warn", chr |-> UnknownGroups[u].chr,
                        count |-> Len(UnknownGroups[u].annots)]]
  /\ phase = "threw" =>
       \E i \in DOMAIN KnownGroups :
         \E j \in DOMAIN KnownGroups[i].annots : BadTrack(KnownGroups[i].annots[j])

\* an unknown group that holds a tuple comes first, a known group with a tuple after it
C3_Witness ==
  /\ phase = "processed"
  /\ Len(rawAnnots.annots) = 2
  /\ IsUnknownGroup(rawAnnots.annots[1]) /\ Len(rawAnnots.annots[1].annots) = 1
  /\ IsKnownGroup(rawAnnots.annots[2]) /\ Len(rawAnnots.annots[2].annots) = 1
  /\ Len(console) = 1
  /\ Len(annots) = 1 /\ Len(annots[1].annots) = 1

\* the annotation made from tuple j of known group i, and that tuple
AnnotAt(ij) == annots[ij[1]].annots[ij[2]]
TupleAt(ij) == KnownGroups[ij[1]].annots[ij[2]]

HasKey(key) == \E k \in DOMAIN rawAnnots.keys : rawAnnots.keys[k] = key

\* the annotation's own value of the field: the tuple's value in the slot of the key
OwnField(ij, key) == At(TupleAt(ij), IndexOf(rawAnnots.keys, key))

\* the track config entry selected by the annotation's trackIndex
TrackOf(ij) ==
  config.annotationTracks.list[(AnnotAt(ij)["trackIndex"].n \div PxDen) + 1]

\* C4: color and shape follow the precedence explicit field > track > default: with
\* 'color' (resp. 'shape') among the keys the resolved value is the annotation's own
\* field; otherwise, with a track config, it is that of the track selected by
\* trackIndex; otherwise color is the global default color and shape is undefined.
C4_ColorShapePrecedence ==
  Normalized =>
    \A ij \in Emitted :
      /\ AnnotAt(ij)["color"] =
           IF HasKey("color") THEN OwnField(ij, "color")
           ELSE IF config.annotationTracks.defined THEN Str(TrackOf(ij).color)
           ELSE Str(config.annotationsColor)
      /\ AnnotAt(ij)["shape"] =
           IF HasKey("shape") THEN OwnField(ij, "shape")
           ELSE IF config.annotationTracks.defined THEN Str(TrackOf(ij).shape)
           ELSE Undefined

\* an explicit color, a track color and the default color, all different: the
\* explicit one is the resolved one
C4_Witness ==
  /\ phase = "processed"
  /\ config.annotationTracks.defined
  /\ \E ij \in Emitted :
       /\ HasKey("color") /\ OwnField(ij, "color").t = "str"
       /\ OwnField(ij, "color") # Str(TrackOf(ij).color)
       /\ OwnField(ij, "color") # Str(config.annotationsColor)
       /\ TrackOf(ij).color # config.annotationsColor
       /\ AnnotAt(ij)["color"] = OwnField(ij, "color")

\* a valid input row: numeric start and length, length >= 0
ValidRow(ij) ==
  /\ Len(TupleAt(ij)) >= Len(rawAnnots.keys)
  /\ OwnField(ij, "start").t = "num" /\ OwnField(ij, "length").t = "num"
  /\ OwnField(ij, "length").n >= 0

\* stop = start + length, and startPx, stopPx are the mapper's images of start, stop
StopAndBounds(ij) ==
  /\ AnnotAt(ij)["stop"] = Frac(AnnotAt(ij)["start"].n + AnnotAt(ij)["length"].n)
  /\ AnnotAt(ij)["startPx"] = convertBpToPx(chromosomes[annots[ij[1]].chr], AnnotAt(ij)["start"])
  /\ AnnotAt(ij)["stopPx"] = convertBpToPx(chromosomes[annots[ij[1]].chr], AnnotAt(ij)["stop"])
  /\ AnnotAt(ij)["startPx"].n <= AnnotAt(ij)["stopPx"].n

PxWithinBounds(ij) ==
  /\ AnnotAt(ij)["startPx"].n <= AnnotAt(ij)["px"].n
  /\ AnnotAt(ij)["px"].n <= AnnotAt(ij)["stopPx"].n

\* C5 as stated: for all valid inputs, with integer or fractional pixel offsets,
\* stop = start + length and startPx <= px <= stopPx
C5_PxWithinBounds ==
  Normalized => \A ij \in Emitted : ValidRow(ij) => StopAndBounds(ij) /\ PxWithinBounds(ij)

\* C5 as amended: for all valid inputs stop = start + length, px is an integer within
\* half a pixel of the midpoint of startPx and stopPx, and startPx <= px <= stopPx
\* when the mapper returns integer pixel offsets
C5_PxNearMidpoint ==
  Normalized =>
    \A ij \in Emitted :
      ValidRow(ij) =>
        /\ StopAndBounds(ij)
        /\ IsInteger(AnnotAt(ij)["px"])
        /\ 2 * AnnotAt(ij)["px"].n - (AnnotAt(ij)["startPx"].n + AnnotAt(ij)["stopPx"].n) <= PxDen
        /\ (AnnotAt(ij)["startPx"].n + AnnotAt(ij)["stopPx"].n) - 2 * AnnotAt(ij)["px"].n <= PxDen
        /\ (IsInteger(AnnotAt(ij)["startPx"]) /\ IsInteger(AnnotAt(ij)["stopPx"]))
             => PxWithinBounds(ij)

\* fractional pixel offsets a positive length apart, and px above stopPx
C5_Witness ==
  /\ phase = "processed"
  /\ \E ij \in Emitted :
       /\ ValidRow(ij)
       /\ ~IsInteger(AnnotAt(ij)["startPx"]) /\ ~IsInteger(AnnotAt(ij)["stopPx"])
       /\ AnnotAt(ij)["startPx"].n < AnnotAt(ij)["stopPx"].n
       /\ AnnotAt(ij)["px"].n > AnnotAt(ij)["stopPx"].n

Malformed(ra) == Len(ra) < Len(rawAnnots.keys) \/ BadTrack(ra)

\* C10: a malformed tuple yields no annotation: processAnnotData raises an error or
\* emits nothing for that tuple
C10_MalformedTupleRejected ==
  Normalized =>
    \A i \in DOMAIN KnownGroups :
      \A j \in DOMAIN KnownGroups[i].annots :
        Malformed(KnownGroups[i].annots[j]) =>
          ~(i \in DOMAIN annots /\ j \in DOMAIN annots[i].annots)

----------------------------------------------------------------------------
(* fillAnnots on any fragment, applied once and then again to its own result *)

Annot(name) == Put(EmptyObject, "name", Str(name))

AnnotLists == {<< >>, <<Annot("BRCA1")>>, <<Annot("TP53"), Annot("BRCA1")>>}

\* fragments of any shape: empty, partial, out of order, with repeated and with
\* unknown chromosome names
Fragments == SeqsOf([chr : NamePool, annots : AnnotLists], 0, MaxFrag)

NoRawAnnots == [keys |-> << >>, annots |-> << >>]

InitFill ==
  /\ chromosomesArray \in CanonicalOrders
  /\ chromosomes = TableOf(chromosomesArray, PxDen)
  /\ config = ConfigOf(NoTracks, FALSE, << >>)
  /\ onLoadAnnotsCallback = FALSE
  /\ rawAnnots = NoRawAnnots
  /\ annots \in Fragments
  /\ filledAnnots = NoList
  /\ refilledAnnots = NoList
  /\ console = << >>
  /\ alerts = << >>
  /\ pending = {}
  /\ events = << >>
  /\ issued = << >>
  /\ phase = "processed"

\* ideo.fillAnnots(filledAnnots): the result of fillAnnots is reconciled again
RefillAnnots ==
  /\ phase = "filled"
  /\ refilledAnnots' = fillAnnots(chromosomesArray, filledAnnots)
  /\ phase' = "refilled"
  /\ UNCHANGED <<chromosomesArray, chromosomes, config, onLoadAnnotsCallback,
                 rawAnnots, annots, filledAnnots, console, alerts, pending, events, issued>>

NextFill == FillAnnots \/ RefillAnnots

SpecFill == InitFill /\ [][NextFill]_vars

Filled == phase \in {"filled", "refilled"}

\* C1: for every fragment the chr names of the list fillAnnots returns are the
\* diagram's chromosome names, in the diagram's order: as many entries as
\* chromosomes, entry p named as chromosome p; a chromosome with no entry in the
\* fragment has an empty annots sequence.
C1_FilledMatchesCanonical ==
  Filled =>
    /\ Len(filledAnnots) = Len(chromosomesArray)
    /\ \A p \in DOMAIN chromosomesArray :
         /\ filledAnnots[p].chr = chromosomesArray[p].name
         /\ (\A i \in DOMAIN annots : annots[i].chr # chromosomesArray[p].name)
              => filledAnnots[p].annots = << >>

\* a fragment of three entries: one names a chromosome the diagram lacks, two others
\* hold annotations and come in the reverse of the diagram's order
C1_Witness ==
  /\ phase = "filled"
  /\ Len(chromosomesArray) = 2 /\ Len(annots) = 3
  /\ \E i \in DOMAIN annots : IndexOf(ChrNames(chromosomesArray), annots[i].chr) = -1
  /\ \E i, j \in DOMAIN annots :
       /\ i < j
       /\ IndexOf(ChrNames(chromosomesArray), annots[j].chr) # -1
       /\ IndexOf(ChrNames(chromosomesArray), annots[j].chr) <
            IndexOf(ChrNames(chromosomesArray), annots[i].chr)
       /\ annots[i].annots # << >> /\ annots[j].annots # << >>

\* C2: fillAnnots applied to its own result returns an equal structure
C2_FillIdempotent == phase = "refilled" => refilledAnnots = filledAnnots

\* the fragment was out of order and sparse, and its annotations survive both passes
C2_Witness ==
  /\ phase = "refilled"
  /\ Len(chromosomesArray) = 2
  /\ annots # filledAnnots
  /\ \E p \in DOMAIN refilledAnnots : refilledAnnots[p].annots # << >>
  /\ \E p \in DOMAIN refilledAnnots : refilledAnnots[p].annots = << >>

----------------------------------------------------------------------------
(* fetchAnnots *)

\* a string is the sequence of its characters

\* str.slice(0, n)
SliceFromStart(str, n) == SubSeq(str, 1, IF Len(str) < n THEN Len(str) ELSE n)

Positions(str, c) == {i \in DOMAIN str : str[i] = c}
Least(S) == CHOOSE i \in S : \A j \in S : i <= j
Greatest(S) == CHOOSE i \in S : \A j \in S : j <= i

\* str.split(c)[0]
BeforeFirst(str, c) ==
  IF Positions(str, c) = {} THEN str ELSE SubSeq(str, 1, Least(Positions(str, c)) - 1)

\* the last element of str.split(c)
AfterLast(str, c) ==
  IF Positions(str, c) = {} THEN str
  ELSE SubSeq(str, Greatest(Positions(str, c)) + 1, Len(str))

UpperChar(c) ==
  CASE c = "b" -> "B" [] c = "e" -> "E" [] c = "d" -> "D" [] c = "j" -> "J"
    [] c = "s" -> "S" [] c = "o" -> "O" [] c = "n" -> "N" [] c = "x" -> "X"
    [] c = "y" -> "Y" [] c = "z" -> "Z" [] c = "a" -> "A" [] c = "v" -> "V"
    [] OTHER -> c

\* str.toUpperCase()
toUpperCase(str) == [i \in DOMAIN str |-> UpperChar(str[i])]

Http == <<"h", "t", "t", "p">>
Bed == <<"b", "e", "d">>
Json == <<"j", "s", "o", "n">>

\* annotsUrl.slice(0, 4) !== 'http'
IsRelative(annotsUrl) == SliceFromStart(annotsUrl, 4) # Http

\* tmp = annotsUrl.split('?')[0].split('.'); extension = tmp[tmp.length - 1]
ExtensionOf(annotsUrl) == AfterLast(BeforeFirst(annotsUrl, "?"), ".")

\* extension !== 'bed' && extension !== 'json'
Unsupported(extension) == extension # Bed /\ extension # Json

\* the alert of fetchAnnots: the message names the extension in upper case
AlertOf(id, extension) == [id |-> id, names |-> toUpperCase(extension)]

\* the value a continuation stores in ideo.rawAnnots: the decoded body
Decoded(as, body) == [decodedAs |-> as, payload |-> body.payload]

NotLoaded == [decodedAs |-> "none", payload |-> 0]

\* JSON.parse(text): a SyntaxError unless the text is JSON
JsonParse(body) ==
  IF body.fmt = "json" THEN [threw |-> FALSE, value |-> Decoded("json", body)]
  ELSE [threw |-> TRUE, value |-> NotLoaded]

\* new BedParser(text, ideo).rawAnnots: every line becomes a tuple
BedParse(body) == [threw |-> FALSE, value |-> Decoded("bed", body)]

Event(ev, id, raw, arg) == [ev |-> ev, id |-> id, raw |-> raw, arg |-> arg]

\* the completion callback is invoked before the heatmap deserializer
afterRawAnnotsCallbackFirst(cfg, callback, id, raw) ==
  (IF callback THEN <<Event("callback", id, raw, raw)>> ELSE << >>)
  \o (IF cfg.heatmaps THEN <<Event("heatmap", id, raw, raw)>> ELSE << >>)

\* afterRawAnnots(rawAnnots), called with ideo.rawAnnots holding raw:
\* ideo.deserializeAnnotsForHeatmap(rawAnnots) if ideo.config.heatmaps, then
\* ideo.onLoadAnnotsCallback() if registered
afterRawAnnots(cfg, callback, id, raw) ==
  (IF cfg.heatmaps THEN <<Event("heatmap", id, raw, raw)>> ELSE << >>)
  \o (IF callback THEN <<Event("callback", id, raw, raw)>> ELSE << >>)

\* a later continuation leaves a loaded raw set alone
StoreIfNotLoaded(current, data) == IF current = NotLoaded THEN data ELSE current

\* ideo.rawAnnots = data
Store(current, data) == data

\* d3.json(...) / d3.text(...): one more request in flight
Issue(inFlight, request) == inFlight \cup {request}

\* fetchAnnots(annotsUrl), up to the return: a d3.json request for
\* ideo.config.annotationsPath, an alert, or a d3.text request for annotsUrl
FetchAnnots(annotsUrl) ==
  /\ phase = "fetching"
  /\ Len(issued) < MaxFetches
  /\ LET id == Len(issued) + 1
         extension == ExtensionOf(annotsUrl)
     IN /\ issued' = Append(issued, annotsUrl)
        /\ IF IsRelative(annotsUrl)
           THEN /\ pending' = Issue(pending,
                                    [id |-> id, via |-> "json",
                                     url |-> config.annotationsPath, extension |-> << >>])
                /\ events' = Append(events, Event("request", id, rawAnnots, rawAnnots))
                /\ alerts' = alerts
           ELSE IF Unsupported(extension)
           THEN /\ alerts' = Append(alerts, AlertOf(id, extension))
                /\ events' = Append(events, Event("alert", id, rawAnnots, rawAnnots))
                /\ pending' = pending
           ELSE /\ pending' = Issue(pending,
                                    [id |-> id, via |-> "text",
                                     url |-> annotsUrl, extension |-> extension])
                /\ events' = Append(events, Event("request", id, rawAnnots, rawAnnots))
                /\ alerts' = alerts
  /\ UNCHANGED <<chromosomesArray, chromosomes, config, onLoadAnnotsCallback, rawAnnots,
                 annots, filledAnnots, refilledAnnots, console, phase>>

\* what a continuation does with the decoded data: the store, then afterRawAnnots
Complete(request, data) ==
  /\ rawAnnots' = Store(rawAnnots, data)
  /\ events' = events \o <<Event("store", request.id, rawAnnots', data)>>
                      \o afterRawAnnots(config, onLoadAnnotsCallback, request.id, rawAnnots')

\* the continuation of d3.json: d3 has parsed the body, which is JSON
ResolveJson(request) ==
  /\ request \in pending /\ request.via = "json"
  /\ pending' = pending \ {request}
  /\ Complete(request, Decoded("json", [fmt |-> "json", payload |-> request.id]))
  /\ UNCHANGED <<chromosomesArray, chromosomes, config, onLoadAnnotsCallback, annots,
                 filledAnnots, refilledAnnots, console, alerts, issued, phase>>

\* the continuation of d3.text, for a body of format fmt; an exception of the
\* decoder ends the continuation
ResolveText(request, fmt) ==
  /\ request \in pending /\ request.via = "text"
  /\ pending' = pending \ {request}
  /\ LET body == [fmt |-> fmt, payload |-> request.id]
         parsed == IF request.extension = Bed THEN BedParse(body) ELSE JsonParse(body)
     IN IF parsed.threw
        THEN /\ events' = Append(events, Event("throw", request.id, rawAnnots, rawAnnots))
             /\ rawAnnots' = rawAnnots
        ELSE Complete(request, parsed.value)
  /\ UNCHANGED <<chromosomesArray, chromosomes, config, onLoadAnnotsCallback, annots,
                 filledAnnots, refilledAnnots, console, alerts, issued, phase>>

\* the request fails (transport error, or a body d3.json cannot parse): the promise
\* is rejected and no continuation runs
RejectRequest(request) ==
  /\ request \in pending
  /\ pending' = pending \ {request}
  /\ events' = Append(events, Event("reject", request.id, rawAnnots, rawAnnots))
  /\ UNCHANGED <<chromosomesArray, chromosomes, config, onLoadAnnotsCallback, rawAnnots,
                 annots, filledAnnots, refilledAnnots, console, alerts, issued, phase>>

\* http:a.bed, http:a.json?v=1, http:a.xyz, http:a.xyz?v=.bed, a.json, a.xyz, a.bed
Urls ==
  {Http \o <<":", "a", ".">> \o Bed,
   Http \o <<":", "a", ".">> \o Json \o <<"?", "v", "=", "1">>,
   Http \o <<":", "a", ".", "x", "y", "z">>,
   Http \o <<":", "a", ".", "x", "y", "z", "?", "v", "=", ".">> \o Bed,
   <<"a", ".">> \o Json,
   <<"a", ".", "x", "y", "z">>,
   <<"a", ".">> \o Bed}

BodyFormats == {"json", "bed", "other"}

InitFetch ==
  /\ chromosomesArray = <<[name |-> "1"]>>
  /\ chromosomes = TableOf(chromosomesArray, PxDen)
  /\ \E heatmaps \in BOOLEAN, path \in {u \in Urls : IsRelative(u)} :
       config = ConfigOf(NoTracks, heatmaps, path)
  /\ onLoadAnnotsCallback \in BOOLEAN
  /\ rawAnnots = NotLoaded
  /\ annots = NoList
  /\ filledAnnots = NoList
  /\ refilledAnnots = NoList
  /\ console = << >>
  /\ alerts = << >>
  /\ pending = {}
  /\ events = << >>
  /\ issued = << >>
  /\ phase = "fetching"

NextFetch ==
  \/ \E annotsUrl \in Urls : FetchAnnots(annotsUrl)
  \/ \E request \in pending : ResolveJson(request)
  \/ \E request \in pending, fmt \in BodyFormats : ResolveText(request, fmt)
  \/ \E request \in pending : RejectRequest(request)

SpecFetch == InitFetch /\ [][NextFetch]_vars

----------------------------------------------------------------------------
(* Properties of fetchAnnots *)

EventsAt(ev, id) == {i \in DOMAIN events : events[i].ev = ev /\ events[i].id = id}

\* ideo.rawAnnots as the step before event i left it
RawBefore(i) == IF i = 1 THEN NotLoaded ELSE events[i - 1].raw

C7_LastToCompleteWins ==
  /\ \A i \in DOMAIN events :
       events[i].ev = "request" =>
         \/ \E r \in pending : r.id = events[i].id
         \/ \E j \in DOMAIN events :
              /\ j > i /\ events[j].id = events[i].id
              /\ events[j].ev \in {"store", "throw", "reject"}
  /\ \A i \in DOMAIN events : events[i].raw # RawBefore(i) => events[i].ev = "store"
  /\ rawAnnots = RawBefore(Len(events) + 1)
  /\ LET stores == {i \in DOMAIN events : events[i].ev = "store"}
     IN IF stores = {} THEN rawAnnots = NotLoaded
        ELSE /\ rawAnnots = events[Greatest(stores)].arg
             /\ rawAnnots.payload = events[Greatest(stores)].id
  /\ onLoadAnnotsCallback =>
       \A id \in DOMAIN issued :
         /\ Cardinality(EventsAt("callback", id)) = Cardinality(EventsAt("store", id))
         /\ Cardinality(EventsAt("store", id)) <= 1

\* two requests in flight together; the second completes first, the first last, and
\* rawAnnots holds the payload of the first
C7_Witness ==
  /\ Len(events) >= 2
  /\ events[1].ev = "request" /\ events[1].id = 1
  /\ events[2].ev = "request" /\ events[2].id = 2
  /\ pending = {}
  /\ onLoadAnnotsCallback
  /\ \E i \in EventsAt("store", 2) : \E j \in EventsAt("store", 1) : i < j
  /\ rawAnnots.payload = 1
  /\ Cardinality(EventsAt("callback", 1)) = 1 /\ Cardinality(EventsAt("callback", 2)) = 1

\* C8: in every cycle that decodes a payload the decoded raw set is stored in
\* rawAnnots, then, only in heatmap mode, the same raw set is forwarded to the heatmap
\* deserializer, then the registered completion callback is invoked, each once; the
\* callback sees the new rawAnnots, and no callback or forwarding happens for a
\* cycle that decoded nothing.
C8_StoreHeatmapCallbackOrder ==
  /\ \A id \in DOMAIN issued :
       /\ Cardinality(EventsAt("store", id)) <= 1
       /\ Cardinality(EventsAt("heatmap", id)) =
            IF config.heatmaps THEN Cardinality(EventsAt("store", id)) ELSE 0
       /\ Cardinality(EventsAt("callback", id)) =
            IF onLoadAnnotsCallback THEN Cardinality(EventsAt("store", id)) ELSE 0
       /\ EventsAt("throw", id) \cup EventsAt("reject", id) \cup EventsAt("alert", id) # {}
            => EventsAt("store", id) \cup EventsAt("heatmap", id)
                 \cup EventsAt("callback", id) = {}
  /\ \A h \in DOMAIN events :
       events[h].ev = "heatmap" =>
         \E s \in EventsAt("store", events[h].id) :
           /\ s < h
           /\ events[h].arg = events[s].arg
           /\ events[s].raw = events[s].arg
  /\ \A c \in DOMAIN events :
       events[c].ev = "callback" =>
         \E s \in EventsAt("store", events[c].id) :
           /\ s < c
           /\ events[s].raw = events[s].arg
           /\ events[c].raw = events[s].arg
           /\ events[c].raw # RawBefore(s)
           /\ \A h \in EventsAt("heatmap", events[c].id) : s < h /\ h < c

\* heatmap mode with a callback: a cycle completes over a raw set that an earlier
\* cycle loaded, forwards its raw set and then notifies
C8_Witness ==
  /\ config.heatmaps /\ onLoadAnnotsCallback
  /\ \E c \in DOMAIN events :
       /\ events[c].ev = "callback"
       /\ \E s \in EventsAt("store", events[c].id) : RawBefore(s) # NotLoaded
       /\ EventsAt("heatmap", events[c].id) # {}

====
